---- MODULE Spec2Model ----
(***************************************************************************)
(* Model of wmp::log_t (libwmp): the bounded message queue, the producers  *)
(* calling log_t::write, the writer thread, the sink registry, the syslog  *)
(* state machine and the engine teardown.                                  *)
(***************************************************************************)
EXTENDS Integers, Sequences, FiniteSets, TLC

\* ------------------------------------------------------------------------
\* log_t::levels_t
trace == 0
debug == 1
info == 2
notify == 3
warn == 4
error == 5
fatal == 6
excep == 7
levels_t == trace..excep

\* ------------------------------------------------------------------------
\* Bounds of the model.
QueueLen == 2           \* queue capacity (WMP_CONF_MAX_LOG_QUEUE_LEN)
MaxMsgs == 3            \* write calls made in one run
ExampleQueueLen == 4    \* queue capacity of the worked example

\* Inputs.
Procs == {"p1", "p2"}
Streams == {"s1"}
Paths == {"f1"}
Handles == {"h1", "h2"}
Names == {"WMP LOG", "app"}
Sinks == Streams \cup Handles
NoHandle == "none"

VARIABLES
  level_v, executing_v, write_exception_v,
  head_v, tail_v, count_v, messages_v,
  os_v, ofs_v, app_name_v, syslog_state_v,
  wpc,          \* position of the writer thread
  ppc, pmsg,    \* position and message of each producer inside enqueue
  pf,           \* facts about each producer's current call
  cop,          \* configuration call past its fault check, waiting for the lock
  dpc,          \* position of ~log_t
  has_syslog,   \* WMP_CONF_HAS_SYSLOG of the build
  max_count_c,  \* WMP_CONF_MAX_LOG_QUEUE_LEN of the build
  mutex_v,      \* thread inside a scoped_lock of mutex_v, or "free"
  wi,           \* streams written by the write_log_entry in progress
  \* environment and history
  sys_ident,    \* ident syslog is open with, or "none"
  sys_calls,    \* syslog calls made, in order
  out,          \* message ids each sink received, in order
  ub,           \* a destroyed ofstream was written through
  nmsgs,        \* write calls made
  enq,          \* ids in the order their enqueue completed
  disp,         \* ids in the order their dispatch completed
  pres, cres,   \* result of each producer's / the configurer's last call
  hist          \* facts recorded for the properties

build == <<has_syslog, max_count_c>>
lockvars == <<mutex_v, wi>>
qvars == <<head_v, tail_v, count_v, messages_v>>
regvars == <<os_v, ofs_v>>
sysvars == <<app_name_v, syslog_state_v>>
envvars == <<sys_ident, sys_calls, out, ub>>
pvars == <<ppc, pmsg, pres, nmsgs, pf>>
cvars == <<cop, cres>>
vars == <<level_v, executing_v, write_exception_v, qvars, regvars, sysvars,
          wpc, pvars, cvars, dpc, build, lockvars, envvars, enq, disp,
          hist>>

\* A default constructed msg_t.
NoMsg == [id |-> 0, lvl |-> excep, text |-> <<>>]
NoOp == [op |-> "none"]
NoReuse == 0 - 1
NoFlags == [late |-> FALSE,       \* called on a faulted engine
            aftershut |-> FALSE,  \* called after ~log_t asked to stop
            below |-> FALSE,      \* below the threshold the filter read
            stale |-> FALSE,      \* min_level(l) returned after the filter
            waited |-> FALSE]     \* an attempt found the queue full

\* ------------------------------------------------------------------------
\* Pure parts of the code.

\* log_t::check_exceptions: TRUE when it rethrows.
check_exceptions_bad == FALSE
check_exceptions == ~executing_v /\ write_exception_v

\* enqueue: "if(msg.level() < log_t::ref().min_level()) return;"
filtered_bad(lvl, min) == lvl > min
filtered(lvl, min) == lvl < min

\* enqueue: "while(executing_v)"
keep_trying_bad(flag) == TRUE
keep_trying(flag) == flag

\* enqueue: "if(count_v < max_count_c)"
has_slot_bad(c) == c <= max_count_c
has_slot(c) == c < max_count_c

\* "++head_v; if(head_v >= max_count_c) head_v = 0;" and the same for tail_v
advance_bad(i) == IF i + 1 >= max_count_c THEN i ELSE i + 1
advance(i) == IF i + 1 >= max_count_c THEN 0 ELSE i + 1

\* write_log_entry: "return count_v == 0;"
wle_result(c) == c = 0

\* Syslog priorities
LOG_EMERG == 0
LOG_CRIT == 2
LOG_ERR == 3
LOG_WARNING == 4
LOG_NOTICE == 5
LOG_INFO == 6
LOG_DEBUG == 7

\* write_log_entry: the switch that selects the priority
priority_bad(lvl) == LOG_EMERG + (excep - lvl)
priority(lvl) ==
  CASE lvl = excep  -> LOG_EMERG
    [] lvl = fatal  -> LOG_CRIT
    [] lvl = error  -> LOG_ERR
    [] lvl = warn   -> LOG_WARNING
    [] lvl = notify -> LOG_NOTICE
    [] lvl = info   -> LOG_INFO
    [] OTHER        -> LOG_DEBUG

\* std::find(vec.begin(), vec.end(), os) != vec.end()
\* "if(find(...) == vec.end()) vec.push_back(os);" without the test
PushUnique_bad(vec, os) == Append(vec, os)

Contains(vec, os) == \E i \in 1..Len(vec) : vec[i] = os

\* vec.erase(std::find(vec.begin(), vec.end(), os)): the first occurrence
EraseFirst(vec, os) ==
  IF ~Contains(vec, os) THEN vec
  ELSE LET i == CHOOSE j \in 1..Len(vec) :
                  vec[j] = os /\ \A k \in 1..(j - 1) : vec[k] # os
       IN SubSeq(vec, 1, i - 1) \o SubSeq(vec, i + 1, Len(vec))

\* "if(find(...) == vec.end()) vec.push_back(os);"
PushUnique(vec, os) == IF Contains(vec, os) THEN vec ELSE Append(vec, os)

RECURSIVE AddLvls(_, _, _)
AddLvls(reg, os, lvls) ==
  IF lvls = <<>> THEN reg
  ELSE AddLvls([reg EXCEPT ![Head(lvls)] = PushUnique(@, os)], os, Tail(lvls))

RECURSIVE RemoveLvls(_, _, _)
RemoveLvls(reg, os, lvls) ==
  IF lvls = <<>> THEN reg
  ELSE RemoveLvls([reg EXCEPT ![Head(lvls)] = EraseFirst(@, os)], os,
                  Tail(lvls))

\* data_t::add_output(os, lvls)
add_output_unsafe_bad(reg, os, lvls) ==
  [l \in levels_t |-> PushUnique(reg[l], os)]
add_output_unsafe(reg, os, lvls) ==
  IF Len(lvls) = 0
  THEN [l \in levels_t |-> PushUnique(reg[l], os)]
  ELSE AddLvls(reg, os, lvls)

\* data_t::remove_output(os, lvls)
remove_output_unsafe_bad(reg, os, lvls) ==
  [l \in levels_t |-> EraseFirst(reg[l], os)]
remove_output_unsafe(reg, os, lvls) ==
  IF Len(lvls) = 0
  THEN [l \in levels_t |-> EraseFirst(reg[l], os)]
  ELSE RemoveLvls(reg, os, lvls)

\* log_t::add_output(path, lvls, append), lines 474-496, on the path table
\* ofs and the lists os. opened is file->is_open() of a newly made ofstream
\* and h its address. The result is the new table, the new lists and the
\* value returned.
add_output_path_bad(ofs, os, path, lvls, opened, h) ==
  IF ofs[path] = NoHandle
  THEN [ofs |-> [ofs EXCEPT ![path] = h],
        os |-> add_output_unsafe(os, h, lvls),
        res |-> IF opened THEN "true" ELSE "false"]
  ELSE [ofs |-> ofs, os |-> add_output_unsafe(os, ofs[path], lvls),
        res |-> "true"]
add_output_path(ofs, os, path, lvls, opened, h) ==
  IF ofs[path] = NoHandle
  THEN IF ~opened
       THEN [ofs |-> ofs, os |-> os, res |-> "false"]
       ELSE [ofs |-> [ofs EXCEPT ![path] = h],
             os |-> add_output_unsafe(os, h, lvls), res |-> "true"]
  ELSE [ofs |-> ofs, os |-> add_output_unsafe(os, ofs[path], lvls),
        res |-> "true"]

\* log_t::remove_output(path, lvls), lines 521-530: the entry is erased,
\* and its ofstream destroyed, whatever lvls is.
remove_output_path(ofs, os, path, lvls) ==
  IF ofs[path] # NoHandle
  THEN [ofs |-> [ofs EXCEPT ![path] = NoHandle],
        os |-> remove_output_unsafe(os, ofs[path], lvls)]
  ELSE [ofs |-> ofs, os |-> os]

\* ------------------------------------------------------------------------
\* data_t::data_t: the state after construction, writer thread started.
InitWith(syslog, len) ==
  /\ max_count_c = len
  /\ level_v = notify
  /\ executing_v = TRUE
  /\ write_exception_v = FALSE
  /\ head_v = 0
  /\ tail_v = 0
  /\ count_v = 0
  /\ messages_v = [i \in 0..(len - 1) |-> NoMsg]
  /\ os_v = [l \in levels_t |-> <<>>]
  /\ ofs_v = [p \in Paths |-> NoHandle]
  /\ app_name_v = "WMP LOG"
  /\ syslog_state_v = "closed"
  /\ wpc = "loop"
  /\ ppc = [p \in Procs |-> "idle"]
  /\ pmsg = [p \in Procs |-> NoMsg]
  /\ pf = [p \in Procs |-> NoFlags]
  /\ cop = NoOp
  /\ dpc = "live"
  /\ has_syslog = syslog
  /\ mutex_v = "free"
  /\ wi = 0
  /\ sys_ident = "none"
  /\ sys_calls = <<>>
  /\ out = [s \in Sinks |-> <<>>]
  /\ ub = FALSE
  /\ nmsgs = 0
  /\ enq = <<>>
  /\ disp = <<>>
  /\ pres = [p \in Procs |-> "none"]
  /\ cres = "none"
  /\ hist = [faults |-> 0,      \* executions of the catch block
             atshut |-> {},     \* ids queued when ~log_t asked to stop
             shutwait |-> {},   \* ids waiting for a slot at that moment
             reuse |-> NoReuse, \* records dispatched when add_output found
                                \* its path in the table
             wanted |-> FALSE]  \* enable_syslog was the last of enable_syslog
                                \* and disable_syslog to return

Init == InitWith(TRUE, QueueLen)

Faulted == write_exception_v /\ ~executing_v
Ids(seq) == {seq[i] : i \in 1..Len(seq)}
InLoop(p) == ppc[p] \in {"while", "check2", "try"}
\* The ids in the slots from tail_v up to head_v
Queued == [i \in 1..count_v |-> messages_v[(tail_v + i - 1) % max_count_c].id]

\* ------------------------------------------------------------------------
\* log_t::write -> data_t::enqueue, one producer p.

\* operator << (std::ostream &, const log_t::levels_t &), lines 26-41: the
\* characters inserted into the stream
level_name(lvl) ==
  CASE lvl = trace  -> <<"T", "R", "A", "C", "E">>
    [] lvl = debug  -> <<"D", "E", "B", "U", "G">>
    [] lvl = info   -> <<"I", "N", "F", "O", " ">>
    [] lvl = notify -> <<"N", "O", "T", "I", "F">>
    [] lvl = warn   -> <<"W", "A", "R", "N", " ">>
    [] lvl = error  -> <<"E", "R", "R", "O", "R">>
    [] lvl = fatal  -> <<"F", "A", "T", "A", "L">>
    [] lvl = excep  -> <<"E", "X", "C", "E", "P">>
    [] OTHER        -> <<"?", "?", "?", "?">>

\* log_t::msg_t::msg_t (lines 568-586): level_v and the first field of the
\* header in ss_v; id numbers the records in the order of their construction.
msg_t(id, lvl) == [id |-> id, lvl |-> lvl, text |-> level_name(lvl)]

\* The call and the first check_exceptions (line 331).
WriteCall(p, lvl) ==
  /\ ppc[p] = "idle"
  /\ nmsgs' = nmsgs + 1
  /\ pmsg' = [pmsg EXCEPT ![p] = msg_t(nmsgs + 1, lvl)]
  /\ pf' = [pf EXCEPT ![p] = [NoFlags EXCEPT !.late = Faulted,
                                             !.aftershut = (dpc # "live")]]
  /\ IF check_exceptions
     THEN ppc' = ppc /\ pres' = [pres EXCEPT ![p] = "fault"]
     ELSE ppc' = [ppc EXCEPT ![p] = "filter"]
          /\ pres' = [pres EXCEPT ![p] = "none"]
  /\ UNCHANGED <<level_v, executing_v, write_exception_v, qvars, regvars,
                 sysvars, wpc, cvars, dpc, build, lockvars, envvars, enq, disp,
                 hist>>

\* log_t::write (lines 560-565), for a bounded number of calls
Write(p, lvl) == nmsgs < MaxMsgs /\ WriteCall(p, lvl)

\* "if(msg.level() < log_t::ref().min_level()) return;" (line 334); min_level()
\* checks for a fault before it loads level_v.
EnqFilter(p) ==
  /\ ppc[p] = "filter"
  /\ IF check_exceptions
     THEN /\ ppc' = [ppc EXCEPT ![p] = "idle"]
          /\ pres' = [pres EXCEPT ![p] = "fault"]
          /\ pf' = pf
     ELSE /\ pf' = [pf EXCEPT ![p].below = (pmsg[p].lvl < level_v),
                              ![p].stale = FALSE]
          /\ IF filtered(pmsg[p].lvl, level_v)
             THEN /\ ppc' = [ppc EXCEPT ![p] = "idle"]
                  /\ pres' = [pres EXCEPT ![p] = "dropped"]
             ELSE /\ ppc' = [ppc EXCEPT ![p] = "while"]
                  /\ pres' = pres
  /\ UNCHANGED <<level_v, executing_v, write_exception_v, qvars, regvars,
                 sysvars, wpc, pmsg, nmsgs, cvars, dpc, build, lockvars, envvars,
                 enq, disp, hist>>

\* "while(executing_v)" (line 338); when the flag is false the loop is left,
\* notify_all (line 369) is called and enqueue returns.
EnqWhile(p) ==
  /\ ppc[p] = "while"
  /\ IF keep_trying(executing_v)
     THEN /\ ppc' = [ppc EXCEPT ![p] = "check2"]
          /\ UNCHANGED <<pres, wpc>>
     ELSE /\ ppc' = [ppc EXCEPT ![p] = "idle"]
          /\ pres' = [pres EXCEPT ![p] = "stopped"]
          /\ wpc' = IF wpc = "wait" THEN "loop" ELSE wpc
  /\ UNCHANGED <<level_v, executing_v, write_exception_v, qvars, regvars,
                 sysvars, pmsg, nmsgs, pf, cvars, dpc, build, lockvars, envvars,
                 enq, disp, hist>>

\* check_exceptions inside the loop (line 341)
EnqCheck(p) ==
  /\ ppc[p] = "check2"
  /\ IF check_exceptions
     THEN /\ ppc' = [ppc EXCEPT ![p] = "idle"]
          /\ pres' = [pres EXCEPT ![p] = "fault"]
     ELSE /\ ppc' = [ppc EXCEPT ![p] = "try"]
          /\ pres' = pres
  /\ UNCHANGED <<level_v, executing_v, write_exception_v, qvars, regvars,
                 sysvars, wpc, pmsg, nmsgs, pf, cvars, dpc, build, lockvars,
                 envvars, enq, disp, hist>>

\* The critical section (lines 343-362). With a free slot the message is
\* stored, the loop is left, notify_all (line 369) wakes the writer thread when
\* it waits, and enqueue returns. Without one the thread yields (line 365).
EnqTry(p) ==
  /\ ppc[p] = "try"
  /\ IF has_slot(count_v)
     THEN /\ messages_v' = [messages_v EXCEPT ![head_v] = pmsg[p]]
          /\ count_v' = count_v + 1
          /\ head_v' = advance(head_v)
          /\ tail_v' = tail_v
          /\ enq' = Append(enq, pmsg[p].id)
          /\ pres' = [pres EXCEPT ![p] = "ok"]
          /\ ppc' = [ppc EXCEPT ![p] = "idle"]
          /\ wpc' = IF wpc = "wait" THEN "loop" ELSE wpc
          /\ pf' = pf
     ELSE /\ ppc' = [ppc EXCEPT ![p] = "while"]
          /\ pf' = [pf EXCEPT ![p].waited = TRUE]
          /\ UNCHANGED <<qvars, enq, pres, wpc>>
  /\ UNCHANGED <<level_v, executing_v, write_exception_v, regvars, sysvars,
                 pmsg, nmsgs, cvars, dpc, build, lockvars, envvars, disp, hist>>

\* ------------------------------------------------------------------------
\* data_t::write_thread and data_t::write_log_entry.

\* The ofstream behind a handle is alive while ofs_v owns it.
Owned(os) == os \in Streams \/ \E path \in Paths : ofs_v[path] = os

\* lines 247-250: "for(auto os : ...) (*os) << msg.text()": what one sink
\* has received when the first n streams of lst have been written
Times_bad(lst, n, s) == Cardinality({i \in 2..n : lst[i] = s})
Times(lst, n, s) == Cardinality({i \in 1..n : lst[i] = s})
Written(seq, id, k) == seq \o [i \in 1..k |-> id]

SysCall(call, ident, prio, id) ==
  [call |-> call, ident |-> ident, prio |-> prio, id |-> id]

\* line 198: "syslog_state_v = syslog_states_t::enable;" after the closelog
\* of a changed name
after_rename_bad(st) == IF st = "app_name_changed" THEN "closed" ELSE st
after_rename(st) == IF st = "app_name_changed" THEN "enable" ELSE st

\* line 212: "syslog_state_v = syslog_states_t::open;" after openlog
after_open_bad(st) == st
after_open(st) == IF st = "enable" THEN "open" ELSE st

\* line 221: "syslog_state_v == syslog_states_t::closed;" after the closelog
\* of a disable: a comparison, the state is not assigned
after_close(st) == st

\* write_log_entry, lines 189-243: the syslog state machine for one message.
\* The result is the new syslog_state_v, the calls made and the new ident.
syslog_section(msg) ==
  LET st0 == syslog_state_v
      c1 == IF st0 = "app_name_changed"
            THEN <<SysCall("closelog", "none", 0, 0)>> ELSE <<>>
      st1 == after_rename(st0)
      c2 == IF st1 = "enable"
            THEN <<SysCall("openlog", app_name_v, 0, 0)>>
            ELSE IF st1 = "disable"
                 THEN <<SysCall("closelog", "none", 0, 0)>> ELSE <<>>
      st2 == IF st1 = "enable" THEN after_open(st1) ELSE after_close(st1)
      id2 == IF st1 = "enable" THEN app_name_v
             ELSE IF st1 = "disable" \/ st0 = "app_name_changed" THEN "none"
                  ELSE sys_ident
      c3 == IF st2 = "open"
            THEN <<SysCall("syslog", id2, priority(msg.lvl), msg.id)>>
            ELSE <<>>
  IN [state |-> st2, calls |-> c1 \o c2 \o c3, ident |-> id2]

\* The syslog section is compiled in with WMP_CONF_HAS_SYSLOG only
\* (lines 189 and 243).
syslog_effect_bad(msg) == syslog_section(msg)
syslog_effect(msg) ==
  IF has_syslog THEN syslog_section(msg)
  ELSE [state |-> syslog_state_v, calls |-> <<>>, ident |-> sys_ident]

\* line 246: the streams the message goes to
sinks_for_bad(msg) == IF msg.lvl < level_v THEN <<>> ELSE os_v[msg.lvl]
sinks_for(msg) == os_v[msg.lvl]

\* Where write_thread goes with write_log_entry's result r: line 140 in the
\* running loop, line 156 in the flush loop.
after_wle(r) ==
  IF wpc = "wle" THEN (IF r THEN "loop" ELSE "wait")
  ELSE (IF r THEN "drain" ELSE "close")

\* "while(executing_v)" (line 137)
WLoop ==
  /\ wpc = "loop"
  /\ wpc' = IF executing_v THEN "wle" ELSE "drain"
  /\ UNCHANGED <<level_v, executing_v, write_exception_v, qvars, regvars,
                 sysvars, pvars, cvars, dpc, build, lockvars, envvars, enq, disp,
                 hist>>

\* write_log_entry (lines 177-260), called from line 140 or line 156. n is the
\* number of streams written before a stream throws; all of them when none does.
WriteLogEntry(n) ==
  /\ wpc \in {"wle", "drain"}
  /\ IF count_v = 0
     THEN /\ n = 0
          /\ wpc' = after_wle(FALSE)
          /\ UNCHANGED <<qvars, sysvars, envvars, disp>>
     ELSE LET msg == messages_v[tail_v]
              sys == syslog_effect(msg)
              lst == sinks_for(msg)
              last == IF n < Len(lst) THEN n + 1 ELSE n
          IN /\ n \in 0..Len(lst)
             /\ app_name_v' = app_name_v
             /\ syslog_state_v' = sys.state
             /\ sys_calls' = sys_calls \o sys.calls
             /\ sys_ident' = sys.ident
             /\ out' = [s \in Sinks |->
                   IF Owned(s) THEN Written(out[s], msg.id, Times(lst, n, s))
                   ELSE out[s]]
             /\ ub' = (ub \/ \E i \in 1..last : ~Owned(lst[i]))
             /\ IF n = Len(lst)
                THEN /\ count_v' = count_v - 1
                     /\ tail_v' = advance(tail_v)
                     /\ disp' = Append(disp, msg.id)
                     /\ wpc' = after_wle(wle_result(count_v - 1))
                     /\ UNCHANGED <<head_v, messages_v>>
                ELSE /\ wpc' = "catch"
                     /\ UNCHANGED <<qvars, disp>>
  /\ UNCHANGED <<level_v, executing_v, write_exception_v, regvars, pvars,
                 cvars, dpc, build, lockvars, enq, hist>>

\* "queue_empty_v.wait_for(l, 1ms)" (line 151) ends by its timeout.
\* "queue_empty_v.wait_for(l, std::chrono::milliseconds(1));" (line 151)
\* returns after a notify_one of enqueue or after the millisecond.
WTimeout_bad ==
  /\ wpc = "wait"
  /\ count_v > 0
  /\ wpc' = "loop"
  /\ UNCHANGED <<level_v, executing_v, write_exception_v, qvars, regvars,
                 sysvars, pvars, cvars, dpc, build, lockvars, envvars, enq, disp,
                 hist>>

\* A wait that neither a notification nor the timeout ends
WTimeout_lost == wpc = "wait" /\ UNCHANGED vars

WTimeout ==
  /\ wpc = "wait"
  /\ wpc' = "loop"
  /\ UNCHANGED <<level_v, executing_v, write_exception_v, qvars, regvars,
                 sysvars, pvars, cvars, dpc, build, lockvars, envvars, enq, disp,
                 hist>>

\* lines 158-164: close syslog when it is open, then the thread ends.
WClose ==
  /\ wpc = "close"
  /\ wpc' = "done"
  /\ IF has_syslog /\ syslog_state_v = "open"
     THEN /\ sys_calls' = Append(sys_calls, SysCall("closelog", "none", 0, 0))
          /\ sys_ident' = "none"
     ELSE UNCHANGED <<sys_calls, sys_ident>>
  /\ UNCHANGED <<level_v, executing_v, write_exception_v, qvars, regvars,
                 sysvars, pvars, cvars, dpc, build, lockvars, out, ub, enq, disp,
                 hist>>

\* catch(...): "write_exception_v = std::current_exception();" (line 169)
WCatch ==
  /\ wpc = "catch"
  /\ wpc' = "catch2"
  /\ write_exception_v' = TRUE
  /\ hist' = [hist EXCEPT !.faults = @ + 1]
  /\ UNCHANGED <<level_v, executing_v, qvars, regvars, sysvars, pvars, cvars,
                 dpc, build, lockvars, envvars, enq, disp>>

\* catch(...): "executing_v = false;" (line 172), then the thread ends.
WCatch2_bad ==
  /\ wpc = "catch2"
  /\ wpc' = "done"
  /\ UNCHANGED <<level_v, executing_v, write_exception_v, qvars, regvars,
                 sysvars, pvars, cvars, dpc, build, lockvars, envvars, enq,
                 disp, hist>>

WCatch2 ==
  /\ wpc = "catch2"
  /\ wpc' = "done"
  /\ executing_v' = FALSE
  /\ UNCHANGED <<level_v, write_exception_v, qvars, regvars, sysvars, pvars,
                 cvars, dpc, build, lockvars, envvars, enq, disp, hist>>

\* ------------------------------------------------------------------------
\* log_t::~log_t (lines 386-395)

\* "data_v->executing_v = false;"
Shutdown ==
  /\ dpc = "live"
  /\ dpc' = "join"
  /\ executing_v' = FALSE
  /\ hist' = [hist EXCEPT
        !.atshut = Ids(enq) \ Ids(disp),
        !.shutwait = {pmsg[p].id : p \in {q \in Procs :
                         InLoop(q) /\ pf[q].waited}}]
  /\ UNCHANGED <<level_v, write_exception_v, qvars, regvars, sysvars, wpc,
                 pvars, cvars, build, lockvars, envvars, enq, disp>>

\* "data_v->thread_v->join();" returns when the writer thread has ended.
Join ==
  /\ dpc = "join"
  /\ wpc = "done"
  /\ dpc' = "joined"
  /\ UNCHANGED <<level_v, executing_v, write_exception_v, qvars, regvars,
                 sysvars, wpc, pvars, cvars, build, lockvars, envvars, enq, disp,
                 hist>>

\* ------------------------------------------------------------------------
\* The configuration calls. Each one but app_name starts with
\* check_exceptions, outside the lock, and then works under mutex_v
\* (min_level: on the atomic level_v).

Op(op, arg, lvls) == [op |-> op, arg |-> arg, lvls |-> lvls]

\* The call up to and including check_exceptions.
CfgCall(o) ==
  /\ cop = NoOp
  /\ IF check_exceptions
     THEN cop' = cop /\ cres' = "fault"
     ELSE cop' = o /\ cres' = "none"
  /\ UNCHANGED <<level_v, executing_v, write_exception_v, qvars, regvars,
                 sysvars, wpc, pvars, dpc, build, lockvars, envvars, enq, disp,
                 hist>>

\* log_t::min_level(levels_t) (lines 417-424)
MinLevelCall(lvl) == CfgCall(Op("min_level", lvl, <<>>))
MinLevelSet ==
  /\ cop.op = "min_level"
  /\ level_v' = cop.arg
  /\ cop' = NoOp
  /\ cres' = "ok"
  /\ pf' = [p \in Procs |-> [pf[p] EXCEPT !.stale = InLoop(p)]]
  /\ UNCHANGED <<executing_v, write_exception_v, qvars, regvars, sysvars,
                 wpc, ppc, pmsg, pres, nmsgs, dpc, build, lockvars, envvars, enq,
                 disp, hist>>

\* log_t::min_level() (lines 426-433)
MinLevelGetCall == CfgCall(Op("get_min_level", 0, <<>>))
MinLevelGet ==
  /\ cop.op = "get_min_level"
  /\ cop' = NoOp
  /\ cres' = level_v
  /\ UNCHANGED <<level_v, executing_v, write_exception_v, qvars, regvars,
                 sysvars, wpc, pvars, dpc, build, lockvars, envvars, enq,
                 disp, hist>>

\* log_t::app_name (lines 438-449): no check_exceptions.
AppName(name) ==
  /\ cop = NoOp
  /\ app_name_v' = name
  /\ syslog_state_v' = "app_name_changed"
  /\ cres' = "ok"
  /\ UNCHANGED <<level_v, executing_v, write_exception_v, qvars, regvars,
                 wpc, pvars, cop, dpc, build, lockvars, envvars, enq, disp, hist>>

\* log_t::add_output(std::ostream *, lvls) (lines 452-463)
AddOutputCall(os, lvls) == CfgCall(Op("add_output", os, lvls))
AddOutput ==
  /\ cop.op = "add_output"
  /\ os_v' = add_output_unsafe(os_v, cop.arg, cop.lvls)
  /\ cop' = NoOp
  /\ cres' = "ok"
  /\ UNCHANGED <<level_v, executing_v, write_exception_v, qvars, ofs_v,
                 sysvars, wpc, pvars, dpc, build, lockvars, envvars, enq, disp, hist>>

\* log_t::remove_output(std::ostream *, lvls) (lines 500-511)
RemoveOutputCall(os, lvls) == CfgCall(Op("remove_output", os, lvls))
RemoveOutput ==
  /\ cop.op = "remove_output"
  /\ os_v' = remove_output_unsafe(os_v, cop.arg, cop.lvls)
  /\ cop' = NoOp
  /\ cres' = "ok"
  /\ UNCHANGED <<level_v, executing_v, write_exception_v, qvars, ofs_v,
                 sysvars, wpc, pvars, dpc, build, lockvars, envvars, enq, disp, hist>>

\* log_t::add_output(path, lvls, append) (lines 466-497). opened is
\* file->is_open(); h is the address of the new ofstream.
AddPathCall(path, lvls) == CfgCall(Op("add_path", path, lvls))
AddPath(opened, h) ==
  /\ cop.op = "add_path"
  /\ cop' = NoOp
  /\ IF ofs_v[cop.arg] = NoHandle
     THEN \A path \in Paths : ofs_v[path] # h
     ELSE opened /\ h = ofs_v[cop.arg]     \* no file is opened
  /\ LET r == add_output_path(ofs_v, os_v, cop.arg, cop.lvls, opened, h)
     IN /\ ofs_v' = r.ofs
        /\ os_v' = r.os
        /\ cres' = r.res
  /\ hist' = [hist EXCEPT !.reuse =
                 IF ofs_v[cop.arg] # NoHandle THEN Len(disp) ELSE @]
  /\ UNCHANGED <<level_v, executing_v, write_exception_v, qvars, sysvars,
                 wpc, pvars, dpc, build, lockvars, envvars, enq, disp>>

\* log_t::remove_output(path, lvls) (lines 514-531)
RemovePathCall(path, lvls) == CfgCall(Op("remove_path", path, lvls))
RemovePath ==
  /\ cop.op = "remove_path"
  /\ cop' = NoOp
  /\ cres' = "ok"
  /\ LET r == remove_output_path(ofs_v, os_v, cop.arg, cop.lvls)
     IN ofs_v' = r.ofs /\ os_v' = r.os
  /\ hist' = [hist EXCEPT !.reuse =
                 IF ofs_v[cop.arg] # NoHandle THEN NoReuse ELSE @]
  /\ UNCHANGED <<level_v, executing_v, write_exception_v, qvars, sysvars,
                 wpc, pvars, dpc, build, lockvars, envvars, enq, disp>>

\* log_t::enable_syslog (lines 534-544)
EnableSyslogCall == CfgCall(Op("enable_syslog", 0, <<>>))
EnableSyslog_bad ==
  /\ cop.op = "enable_syslog"
  /\ cop' = NoOp
  /\ cres' = "ok"
  /\ syslog_state_v' = "open"
  /\ sys_calls' = Append(sys_calls, SysCall("openlog", app_name_v, 0, 0))
  /\ sys_ident' = app_name_v
  /\ UNCHANGED <<level_v, executing_v, write_exception_v, qvars, regvars,
                 app_name_v, wpc, pvars, dpc, build, lockvars, out, ub, enq, disp,
                 hist>>
EnableSyslog ==
  /\ cop.op = "enable_syslog"
  /\ cop' = NoOp
  /\ cres' = "ok"
  /\ syslog_state_v' = "enable"
  /\ hist' = [hist EXCEPT !.wanted = TRUE]
  /\ UNCHANGED <<level_v, executing_v, write_exception_v, qvars, regvars,
                 app_name_v, wpc, pvars, dpc, build, lockvars, envvars, enq,
                 disp>>

\* log_t::disable_syslog (lines 547-557)
DisableSyslogCall == CfgCall(Op("disable_syslog", 0, <<>>))
DisableSyslog ==
  /\ cop.op = "disable_syslog"
  /\ cop' = NoOp
  /\ cres' = "ok"
  /\ syslog_state_v' = "disable"
  /\ hist' = [hist EXCEPT !.wanted = FALSE]
  /\ UNCHANGED <<level_v, executing_v, write_exception_v, qvars, regvars,
                 app_name_v, wpc, pvars, dpc, build, lockvars, envvars, enq,
                 disp>>

\* ------------------------------------------------------------------------
\* The specifications.

MsgLevels == {info, warn}
MinLevels == {notify, error}
LvlLists == {<<>>, <<warn>>}

Producer(P, L) ==
  \/ \E p \in P, lvl \in L : Write(p, lvl)
  \/ \E p \in P : EnqFilter(p)
  \/ \E p \in P : EnqWhile(p)
  \/ \E p \in P : EnqCheck(p)
  \/ \E p \in P : EnqTry(p)

\* The writer thread while nobody asks it to stop
WriterRunning ==
  \/ WLoop
  \/ \E n \in 0..Cardinality(Sinks) : WriteLogEntry(n)
  \/ WTimeout
  \/ WCatch
  \/ WCatch2

Writer == WriterRunning \/ WClose

Destructor ==
  \/ Shutdown
  \/ Join

Configure ==
  \/ \E lvl \in MinLevels : MinLevelCall(lvl)
  \/ MinLevelSet
  \/ MinLevelGetCall
  \/ MinLevelGet
  \/ \E name \in Names : AppName(name)
  \/ \E os \in Streams, lvls \in LvlLists : AddOutputCall(os, lvls)
  \/ AddOutput
  \/ \E os \in Streams, lvls \in LvlLists : RemoveOutputCall(os, lvls)
  \/ RemoveOutput
  \/ \E path \in Paths, lvls \in LvlLists : AddPathCall(path, lvls)
  \/ \E opened \in BOOLEAN, h \in Handles : AddPath(opened, h)
  \/ \E path \in Paths, lvls \in LvlLists : RemovePathCall(path, lvls)
  \/ RemovePath
  \/ EnableSyslogCall
  \/ EnableSyslog
  \/ DisableSyslogCall
  \/ DisableSyslog

\* The whole program.
NextAll == Producer(Procs, MsgLevels) \/ Writer \/ Destructor \/ Configure

\* The queue, its producers, the writer thread and the teardown, with the
\* two configuration calls their behaviour depends on.
Next ==
  \/ Producer(Procs, {warn})
  \/ Writer
  \/ Destructor
  \/ MinLevelCall(error)
  \/ MinLevelSet
  \/ \E os \in Streams : AddOutputCall(os, <<>>)
  \/ AddOutput

Spec == Init /\ [][Next]_vars

\* Every public operation called on an engine that has faulted: one
\* producer, one stream added before the fault.
NextFaulted ==
  \/ Producer({"p1"}, {warn})
  \/ Writer
  \/ Destructor
  \/ \E os \in Streams : AddOutputCall(os, <<>>)
  \/ AddOutput
  \/ Faulted /\ \E lvl \in MinLevels : MinLevelCall(lvl)
  \/ Faulted /\ MinLevelGetCall
  \/ Faulted /\ \E name \in Names : AppName(name)
  \/ Faulted /\ \E os \in Streams, lvls \in LvlLists :
                   RemoveOutputCall(os, lvls)
  \/ Faulted /\ \E path \in Paths, lvls \in LvlLists :
                   AddPathCall(path, lvls)
  \/ Faulted /\ \E path \in Paths, lvls \in LvlLists :
                   RemovePathCall(path, lvls)
  \/ Faulted /\ EnableSyslogCall
  \/ Faulted /\ DisableSyslogCall

SpecFaulted == Init /\ [][NextFaulted]_vars

\* The threshold raised and lowered while two producers write records of
\* two severities to one stream.
NextLevels ==
  \/ Producer(Procs, MsgLevels)
  \/ WriterRunning
  \/ \E lvl \in MinLevels : MinLevelCall(lvl)
  \/ MinLevelSet
  \/ \E os \in Streams : AddOutputCall(os, <<>>)
  \/ AddOutput

SpecLevels == Init /\ [][NextLevels]_vars

\* One producer writing records of two severities to one stream and to
\* syslog while the threshold is raised and lowered.
NextFilter ==
  \/ Producer({"p1"}, MsgLevels)
  \/ WriterRunning
  \/ \E lvl \in MinLevels : MinLevelCall(lvl)
  \/ MinLevelSet
  \/ \E os \in Streams : AddOutputCall(os, <<>>)
  \/ AddOutput
  \/ EnableSyslogCall
  \/ EnableSyslog

SpecFilter == Init /\ [][NextFilter]_vars

\* The sink registry alone: streams and files added and removed, for all
\* levels or for listed ones, with nothing queued.
RegLists == {<<>>, <<warn>>, <<error, warn, error>>}

NextRegistry ==
  \/ \E os \in Streams, lvls \in RegLists : AddOutputCall(os, lvls)
  \/ AddOutput
  \/ \E os \in Streams, lvls \in RegLists : RemoveOutputCall(os, lvls)
  \/ RemoveOutput
  \/ \E path \in Paths, lvls \in RegLists : AddPathCall(path, lvls)
  \/ \E opened \in BOOLEAN, h \in Handles : AddPath(opened, h)
  \/ \E path \in Paths, lvls \in RegLists : RemovePathCall(path, lvls)
  \/ RemovePath

SpecRegistry == Init /\ [][NextRegistry]_vars

\* Records of two severities dispatched while no stream throws.
RegLevels == {warn, error}
NoThrow ==
  IF count_v = 0 THEN 0 ELSE Len(sinks_for(messages_v[tail_v]))
Dispatch ==
  \/ Producer({"p1"}, RegLevels)
  \/ WLoop
  \/ WriteLogEntry(NoThrow)
  \/ WTimeout

\* A file added and removed while records are dispatched.
NextFiles ==
  \/ Dispatch
  \/ \E path \in Paths : AddPathCall(path, <<>>)
  \/ \E opened \in BOOLEAN, h \in Handles : AddPath(opened, h)
  \/ \E path \in Paths, lvls \in {<<>>, <<warn>>} :
        RemovePathCall(path, lvls)
  \/ RemovePath

SpecFiles == Init /\ [][NextFiles]_vars

\* A stream added and removed while records are dispatched.
NextStreams ==
  \/ Dispatch
  \/ \E os \in Streams, lvls \in {<<>>, <<warn>>} : AddOutputCall(os, lvls)
  \/ AddOutput
  \/ \E os \in Streams, lvls \in {<<>>, <<warn>>} :
        RemoveOutputCall(os, lvls)
  \/ RemoveOutput

SpecStreams == Init /\ [][NextStreams]_vars

\* Syslog enabled, disabled and renamed while one producer writes, up to
\* the teardown. No stream is subscribed.
NextSyslog ==
  \/ Producer({"p1"}, {warn})
  \/ WLoop
  \/ WriteLogEntry(NoThrow)
  \/ WTimeout
  \/ WClose
  \/ Destructor
  \/ EnableSyslogCall
  \/ EnableSyslog
  \/ DisableSyslogCall
  \/ DisableSyslog
  \/ \E name \in Names : AppName(name)

SpecSyslog == Init /\ [][NextSyslog]_vars

\* ------------------------------------------------------------------------
\* The critical sections of mutex_v, with write_log_entry step by step.

\* "std::scoped_lock<std::mutex> l(mutex_v);": entered when no thread is
\* inside the lock
scoped_lock_bad == TRUE
scoped_lock == mutex_v = "free"

\* enqueue, lines 343-362
LockedEnqTry(p) == scoped_lock /\ EnqTry(p)

\* write_log_entry, lines 180-184: the queue is found empty
WleEmpty == scoped_lock /\ mutex_v # "writer" /\ count_v = 0 /\ WriteLogEntry(0)

\* write_log_entry, lines 180-243: the lock, the test of count_v and the
\* syslog section
WleLock ==
  /\ wpc \in {"wle", "drain"}
  /\ scoped_lock /\ mutex_v # "writer"
  /\ count_v > 0
  /\ mutex_v' = "writer"
  /\ wi' = 0
  /\ LET sys == syslog_effect(messages_v[tail_v])
     IN /\ syslog_state_v' = sys.state
        /\ sys_calls' = sys_calls \o sys.calls
        /\ sys_ident' = sys.ident
  /\ UNCHANGED <<level_v, executing_v, write_exception_v, qvars, regvars,
                 app_name_v, wpc, pvars, cvars, dpc, build, out, ub, enq,
                 disp, hist>>

\* lines 247-250: one turn of the loop over the streams
WleStream ==
  /\ mutex_v = "writer"
  /\ LET msg == messages_v[tail_v]
         lst == sinks_for(msg)
     IN /\ wi < Len(lst)
        /\ wi' = wi + 1
        /\ out' = [s \in Sinks |->
              IF s = lst[wi + 1] /\ Owned(s) THEN Append(out[s], msg.id)
              ELSE out[s]]
        /\ ub' = (ub \/ ~Owned(lst[wi + 1]))
  /\ UNCHANGED <<level_v, executing_v, write_exception_v, qvars, regvars,
                 sysvars, wpc, pvars, cvars, dpc, build, mutex_v, sys_ident,
                 sys_calls, enq, disp, hist>>

\* lines 252-260: the dequeue and the return, which releases the lock
WleDequeue ==
  /\ mutex_v = "writer"
  /\ wi = Len(sinks_for(messages_v[tail_v]))
  /\ count_v' = count_v - 1
  /\ tail_v' = advance(tail_v)
  /\ disp' = Append(disp, messages_v[tail_v].id)
  /\ wpc' = after_wle(wle_result(count_v - 1))
  /\ mutex_v' = "free"
  /\ wi' = 0
  /\ UNCHANGED <<level_v, executing_v, write_exception_v, head_v,
                 messages_v, regvars, sysvars, pvars, cvars, dpc, build,
                 envvars, enq, hist>>

\* The calls that change the registry, the name and the syslog state, each
\* inside its scoped_lock.
LockedConfigure ==
  \/ scoped_lock /\ app_name_v # "app" /\ AppName("app")
  \/ scoped_lock /\ AddOutput
  \/ scoped_lock /\ \E opened \in BOOLEAN : AddPath(opened, "h1")
  \/ scoped_lock /\ EnableSyslog

NextLock ==
  \/ Write("p1", warn)
  \/ EnqFilter("p1")
  \/ EnqWhile("p1")
  \/ EnqCheck("p1")
  \/ LockedEnqTry("p1")
  \/ WLoop
  \/ WleEmpty
  \/ WleLock
  \/ WleStream
  \/ WleDequeue
  \/ WTimeout
  \/ \E os \in Streams : AddOutputCall(os, <<>>)
  \/ \E path \in Paths : AddPathCall(path, <<>>)
  \/ syslog_state_v = "closed" /\ EnableSyslogCall
  \/ LockedConfigure

SpecLock == Init /\ [][NextLock]_vars

\* A stream and a file subscribed while records are dispatched, each of
\* which may throw when it is written.
NextFanout ==
  \/ Producer({"p1"}, {warn})
  \/ WriterRunning
  \/ \E os \in Streams : AddOutputCall(os, <<>>)
  \/ AddOutput
  \/ \E path \in Paths : AddPathCall(path, <<>>)
  \/ \E opened \in BOOLEAN, h \in Handles : AddPath(opened, h)

SpecFanout == Init /\ [][NextFanout]_vars

\* A build without WMP_CONF_HAS_SYSLOG: the syslog calls of the interface
\* and a stream.
NextNoSyslog ==
  \/ Producer({"p1"}, {warn})
  \/ WLoop
  \/ WriteLogEntry(NoThrow)
  \/ WTimeout
  \/ WClose
  \/ Destructor
  \/ \E os \in Streams : AddOutputCall(os, <<>>)
  \/ AddOutput
  \/ EnableSyslogCall
  \/ EnableSyslog
  \/ DisableSyslogCall
  \/ DisableSyslog

SpecNoSyslog == InitWith(FALSE, QueueLen) /\ [][NextNoSyslog]_vars

\* The engine running with no fault and no teardown; the writer thread is
\* scheduled forever.
WriterNoFault ==
  \/ WLoop
  \/ WriteLogEntry(NoThrow)
  \/ WTimeout

NextRunning ==
  \/ Producer(Procs, {warn})
  \/ WriterNoFault
  \/ \E os \in Streams : AddOutputCall(os, <<>>)
  \/ AddOutput

SpecRunning == Init /\ [][NextRunning]_vars /\ WF_vars(WriterNoFault)

\* A freshly constructed engine on which no configuration call is made:
\* records of every severity are written.
NextInitial ==
  \/ Producer({"p1"}, levels_t)
  \/ WriterNoFault

SpecInitial == Init /\ [][NextInitial]_vars

\* The teardown with one producer and one stream that may throw. The
\* writer thread is scheduled as long as it has not ended, and join returns
\* once it has.
NextShutdown ==
  \/ Producer({"p1"}, {warn})
  \/ Writer
  \/ Destructor
  \/ \E os \in Streams : AddOutputCall(os, <<>>)
  \/ AddOutput

SpecShutdown ==
  Init /\ [][NextShutdown]_vars /\ WF_vars(Writer) /\ WF_vars(Join)

\* Records of every severity, written once min_level(trace) and
\* enable_syslog() have returned.
SeveritiesReady == cop = NoOp /\ level_v = trace /\ syslog_state_v # "closed"

NextSeverities ==
  \/ SeveritiesReady /\ \E lvl \in levels_t : Write("p1", lvl)
  \/ EnqFilter("p1")
  \/ EnqWhile("p1")
  \/ EnqCheck("p1")
  \/ EnqTry("p1")
  \/ WLoop
  \/ WriteLogEntry(NoThrow)
  \/ WTimeout
  \/ level_v # trace /\ MinLevelCall(trace)
  \/ MinLevelSet
  \/ syslog_state_v = "closed" /\ EnableSyslogCall
  \/ EnableSyslog

SpecSeverities == Init /\ [][NextSeverities]_vars

\* The worked example: a queue of four slots, the threshold set to warn and
\* a stream subscribed to every severity; then one thread writes five
\* records.
ExampleLevels == <<info, warn, error, warn, fatal>>
InitExample == InitWith(TRUE, ExampleQueueLen)
ExampleReady ==
  /\ cop = NoOp
  /\ level_v = warn
  /\ \A l \in levels_t : os_v[l] # <<>>
ExampleWrite ==
  /\ ExampleReady
  /\ nmsgs < Len(ExampleLevels)
  /\ WriteCall("p1", ExampleLevels[nmsgs + 1])

NextExample ==
  \/ ExampleWrite
  \/ EnqFilter("p1")
  \/ EnqWhile("p1")
  \/ EnqCheck("p1")
  \/ EnqTry("p1")
  \/ WLoop
  \/ WriteLogEntry(NoThrow)
  \/ WTimeout
  \/ MinLevelCall(warn)
  \/ MinLevelSet
  \/ \E os \in Streams : AddOutputCall(os, <<>>)
  \/ AddOutput

SpecExample == InitExample /\ [][NextExample]_vars

\* ------------------------------------------------------------------------
\* Properties.

NoDup(seq) == \A i, j \in 1..Len(seq) : seq[i] = seq[j] => i = j
IsPrefix(a, b) == Len(a) <= Len(b) /\ \A i \in 1..Len(a) : a[i] = b[i]
Pos(seq, x) == CHOOSE i \in 1..Len(seq) : seq[i] = x
\* o lists elements of seq in the order they have in seq
InOrderOf(o, seq) ==
  /\ Ids(o) \subseteq Ids(seq)
  /\ \A i, j \in 1..Len(o) : i < j => Pos(seq, o[i]) < Pos(seq, o[j])
AllIdle == \A p \in Procs : ppc[p] = "idle"
\* write_log_entry is called and takes a message
Dispatching == wpc \in {"wle", "drain"} /\ count_v > 0
               /\ (wpc' # wpc \/ disp' # disp)
\* p's attempt in the critical section
Attempt(p) == ppc[p] = "try" /\ ppc'[p] # "try"

\* C1: every record that was queued when ~log_t asked the writer thread to
\* stop has been dispatched when the writer thread has ended without a fault,
\* and the queue is then empty of them.
C1_DrainOnShutdown ==
  (wpc = "done" /\ dpc # "live" /\ ~write_exception_v)
    => hist.atshut \subseteq Ids(disp)

\* C2: the records are dispatched in the order their enqueues completed, and
\* every sink receives the records written to it in that order, also when head
\* and tail have wrapped around.
C2_FIFO ==
  /\ IsPrefix(disp, enq)
  /\ \A s \in Sinks : InOrderOf(out[s], enq)
  /\ NoDup(enq)
C2_Witness ==
  /\ Len(disp) > max_count_c
  /\ \E s \in Streams : Len(out[s]) > max_count_c

\* C3: while the engine runs, an attempt that finds count_v < max_count_c
\* stores the record and returns at once; one that finds the queue full
\* changes nothing in the queue and stays in the loop; a write returns only
\* with its record stored; no queued record is overwritten or discarded.
C3_Backpressure ==
  /\ [](count_v <= max_count_c
        /\ Queued = SubSeq(enq, Len(disp) + 1, Len(enq)))
  /\ [][\A p \in Procs :
          /\ Attempt(p) =>
               IF count_v < max_count_c
               THEN /\ enq' = Append(enq, pmsg[p].id)
                    /\ ppc'[p] = "idle" /\ pres'[p] = "ok"
               ELSE /\ UNCHANGED <<qvars, enq>>
                    /\ ppc'[p] = "while"
          /\ (InLoop(p) /\ ppc'[p] = "idle" /\ executing_v')
               => pmsg[p].id \in Ids(enq')]_vars
C3_Witness ==
  /\ executing_v /\ ~write_exception_v /\ wpc # "catch"
  /\ disp = <<>>
  /\ count_v = max_count_c
  /\ Len(enq) = max_count_c
  /\ \E p \in Procs : InLoop(p) /\ pf[p].waited

\* C4: a record below the threshold that the filter read is never stored in
\* the queue, the filter leaves head, tail and count alone, and the record
\* reaches no sink and not syslog.
C4_Filtering ==
  /\ [](\A p \in Procs : pf[p].below =>
          /\ ppc[p] = "idle"
          /\ pmsg[p].id \notin Ids(enq)
          /\ \A i \in 0..(max_count_c - 1) : messages_v[i].id # pmsg[p].id
          /\ \A s \in Sinks : pmsg[p].id \notin Ids(out[s])
          /\ \A i \in 1..Len(sys_calls) : sys_calls[i].id # pmsg[p].id)
  /\ [][\A p \in Procs :
          (ppc[p] = "filter" /\ ppc'[p] # "filter" /\ pmsg[p].lvl < level_v)
            => UNCHANGED qvars /\ ppc'[p] = "idle"]_vars
C4_Witness ==
  /\ \E p \in Procs : pf[p].below /\ pres[p] = "dropped"
  /\ \E s \in Streams : out[s] # <<>>
  /\ \E i \in 1..Len(sys_calls) : sys_calls[i].call = "syslog"

\* C5: the catch block runs at most once, and a write call made after it has
\* run returns the fault to its caller at once, stores nothing and never
\* enters the loop.
C5_FaultContainment ==
  /\ hist.faults <= 1
  /\ write_exception_v <=> hist.faults = 1
  /\ \A p \in Procs : pf[p].late =>
       /\ ppc[p] = "idle"
       /\ pres[p] = "fault"
       /\ pmsg[p].id \notin Ids(enq)
C5_Witness ==
  /\ count_v = max_count_c
  /\ \E p \in Procs : pf[p].late /\ pres[p] = "fault"

\* C6: once the engine has faulted, no public operation changes the
\* threshold, the application name, the sink lists, the path table or the
\* syslog state.
C6_FaultedRefuses ==
  [][(Faulted /\ cop = NoOp) =>
       UNCHANGED <<level_v, app_name_v, os_v, ofs_v, syslog_state_v>>]_vars

\* C7: no record is dispatched twice or written twice to a sink, nothing is
\* dispatched that was not enqueued, and when the writer thread has ended
\* without a fault every enqueued record has been dispatched.
C7_ExactlyOnce ==
  /\ NoDup(disp)
  /\ \A s \in Sinks : NoDup(out[s])
  /\ Ids(disp) \subseteq Ids(enq)
  /\ (wpc = "done" /\ ~write_exception_v /\ AllIdle)
       => Ids(enq) \subseteq Ids(disp)

\* C8 as stated: a write that waited for a slot when ~log_t asked to stop
\* never stores its record.
C8_ReleasedWithoutEnqueue == hist.shutwait \cap Ids(enq) = {}

\* Steps enqueue has left at most, once executing_v is false.
Rank(pc) ==
  CASE pc = "idle" -> 0
    [] pc = "while" -> 1
    [] pc = "filter" -> 2
    [] pc = "try" -> 2
    [] pc = "check2" -> 3

\* C8 amended: once executing_v is false every step of a write brings it
\* closer to its return, so it returns after at most one more attempt (which
\* stores the record only if it finds a slot free); at the loop condition it
\* returns without storing; a write called after ~log_t asked to stop never
\* stores its record.
C8_ShutdownReleases ==
  /\ [](\A p \in Procs : pf[p].aftershut => pmsg[p].id \notin Ids(enq))
  /\ [][\A p \in Procs :
          /\ (~executing_v /\ ppc'[p] # ppc[p] /\ ppc[p] # "idle")
               => Rank(ppc'[p]) < Rank(ppc[p])
          /\ (~executing_v /\ ppc[p] = "while" /\ ppc'[p] # "while")
               => ppc'[p] = "idle" /\ enq' = enq]_vars
C8_Witness ==
  \E p \in Procs :
    /\ pmsg[p].id \in hist.shutwait
    /\ ppc[p] = "idle" /\ pres[p] = "stopped"
    /\ pmsg[p].id \notin Ids(enq)

\* C9 as stated: no record below the threshold set by the last min_level(l)
\* that returned is stored in the queue, whichever producer stores it.
C9_NewLevelForAll ==
  [][\A p \in Procs :
       (Attempt(p) /\ enq' # enq) => pmsg[p].lvl >= level_v]_vars

\* C9 amended: a write that evaluates the filter after min_level(l) has
\* returned stores no record below l, until the level is changed again.
C9_NewLevelForLaterWrites ==
  [][\A p \in Procs :
       (Attempt(p) /\ enq' # enq /\ ~pf[p].stale)
         => pmsg[p].lvl >= level_v]_vars
C9_Witness ==
  /\ level_v = error
  /\ \E p \in Procs : pf[p].below /\ ~pf[p].stale /\ pres[p] = "dropped"
  /\ \E p \in Procs : pf[p].stale /\ pres[p] = "ok" /\ pmsg[p].lvl < level_v

\* C10: write_log_entry dispatches the record at the tail to every stream
\* subscribed to its severity whatever the threshold is at that moment.
C10_NoRecheck ==
  [][Dispatching =>
       LET msg == messages_v[tail_v] IN
         \/ wpc' = "catch"
         \/ /\ disp' = Append(disp, msg.id)
            /\ \A s \in Streams : Contains(os_v[msg.lvl], s)
                                    => out'[s] = Append(out[s], msg.id)]_vars
C10_Witness ==
  \E i \in 0..(max_count_c - 1), s \in Streams :
    /\ messages_v[i].lvl < level_v
    /\ messages_v[i].id \in Ids(out[s])
    /\ messages_v[i].id \in Ids(disp)

\* ------------------------------------------------------------------------
\* The sink registry.

\* Occurrences of a handle in a list
Count(vec, os) == Cardinality({i \in 1..Len(vec) : vec[i] = os})
\* A step in which write_log_entry dispatches the record at the tail
Dispatched == disp' # disp
\* A configuration call op returns in this step
Returns(op) == cop.op = op /\ cop' = NoOp

\* C11: add_output(path) for a path already in the table opens nothing and
\* keeps the handle of the table, the handle is at most once in each
\* severity's list, and each record dispatched to the file is written to it
\* exactly once (as long as no destroyed stream has been written through).
C11_IdempotentFile ==
  /\ [][Returns("add_path") /\ ofs_v[cop.arg] # NoHandle
          => /\ ofs_v' = ofs_v
             /\ cres' = "true"
             /\ \A l \in levels_t :
                  /\ Count(os_v'[l], ofs_v[cop.arg]) <= 1
                  /\ Len(os_v'[l]) <= Len(os_v[l]) + 1]_vars
  /\ [](\A path \in Paths, l \in levels_t :
          ofs_v[path] # NoHandle => Count(os_v[l], ofs_v[path]) <= 1)
  /\ [][Dispatched /\ ~ub'
          => LET msg == messages_v[tail_v]
             IN \A path \in Paths :
                  LET h == ofs_v[path]
                  IN h # NoHandle /\ Contains(os_v[msg.lvl], h)
                       => out'[h] = Append(out[h], msg.id)]_vars
  /\ [](~ub => \A h \in Handles : NoDup(out[h]))

\* The path was added a second time and a record dispatched after that is
\* in the file, once.
C11_Witness ==
  \E path \in Paths :
    /\ ofs_v[path] # NoHandle
    /\ hist.reuse # NoReuse
    /\ Len(disp) > hist.reuse
    /\ Count(out[ofs_v[path]], disp[Len(disp)]) = 1
    /\ ~ub

\* C12: add_output(path, lvls, append) that returns false has changed
\* nothing: not the path table, the sink lists, the queue, the fault state or
\* the syslog state. When it returns true the path has a handle, and the
\* handle is subscribed as add_output(stream, lvls) subscribes a stream.
C12_OpenFailureNoEffect ==
  [][Returns("add_path")
       => /\ cres' \in {"true", "false"}
          /\ cres' = "false"
               => /\ ofs_v[cop.arg] = NoHandle
                  /\ UNCHANGED <<regvars, qvars, sysvars, level_v,
                                 executing_v, write_exception_v, envvars>>
          /\ cres' = "true"
               => /\ ofs_v'[cop.arg] # NoHandle
                  /\ \A path \in Paths \ {cop.arg} :
                       ofs_v'[path] = ofs_v[path]
                  /\ os_v' = add_output_unsafe(os_v, ofs_v'[cop.arg],
                                               cop.lvls)]_vars

\* The open failed with a stream subscribed; the path has no handle.
C12_Witness ==
  /\ cres = "false"
  /\ cop = NoOp
  /\ \A path \in Paths : ofs_v[path] = NoHandle
  /\ \E l \in levels_t : os_v[l] # <<>>

\* C13: remove_output(path, lvls) with a non-empty lvls leaves the file in
\* the path table, open, and unsubscribes it from the listed severities
\* only, so that no record is ever written through a destroyed stream; the
\* file leaves the table only when lvls is empty.
C13_PartialRemoveKeepsFile ==
  /\ [][Returns("remove_path") /\ cop.lvls # <<>>
          => /\ ofs_v' = ofs_v
             /\ \A l \in levels_t \ Ids(cop.lvls) : os_v'[l] = os_v[l]]_vars
  /\ [][Returns("remove_path") /\ cop.lvls = <<>>
          => ofs_v'[cop.arg] = NoHandle]_vars
  /\ [](~ub)

\* C14: add_output(sink, lvls) subscribes the sink to all eight severities
\* when lvls is empty and to the listed severities otherwise, leaving the
\* lists of the other severities as they were; the sinks already in a list
\* keep their positions and at most the new sink is appended.
C14_AddOutputFrame ==
  [][Returns("add_output")
       => LET os == cop.arg
              listed == IF cop.lvls = <<>> THEN levels_t ELSE Ids(cop.lvls)
          IN /\ \A l \in listed :
                  /\ Contains(os_v'[l], os)
                  /\ IsPrefix(os_v[l], os_v'[l])
                  /\ os_v'[l] \in {os_v[l], Append(os_v[l], os)}
             /\ \A l \in levels_t \ listed : os_v'[l] = os_v[l]
             /\ ofs_v' = ofs_v]_vars

\* A stream subscribed to warn alone, behind a file subscribed to all.
C14_Witness ==
  \E os \in Streams, h \in Handles :
    /\ cop = NoOp
    /\ os_v[warn] = <<h, os>>
    /\ \A l \in levels_t \ {warn} : os_v[l] = <<h>>

\* A list without a sink, the other sinks in their order
Without(vec, os) == SelectSeq(vec, LAMBDA x : x # os)

\* C15: remove_output(sink, lvls) takes the sink out of every list when
\* lvls is empty and out of the listed severities' lists otherwise; the
\* other lists, and the lists of a sink that is not subscribed, are
\* unchanged; add_output followed by remove_output with the same arguments
\* gives back the lists of a registry that did not hold the sink.
C15_RemoveOutputInverse ==
  /\ [][Returns("remove_output")
          => LET os == cop.arg
                 listed == IF cop.lvls = <<>> THEN levels_t
                           ELSE Ids(cop.lvls)
             IN /\ \A l \in listed :
                     /\ ~Contains(os_v'[l], os)
                     /\ os_v'[l] = Without(os_v[l], os)
                /\ \A l \in levels_t \ listed : os_v'[l] = os_v[l]
                /\ (\A l \in levels_t : ~Contains(os_v[l], os))
                     => os_v' = os_v
                /\ ofs_v' = ofs_v]_vars
  /\ [](\A os \in Sinks, lvls \in RegLists :
          (\A l \in levels_t : ~Contains(os_v[l], os))
            => remove_output_unsafe(add_output_unsafe(os_v, os, lvls),
                                    os, lvls) = os_v)

\* A stream subscribed to every severity but warn: it was added for all
\* and removed for warn.
C15_Witness ==
  \E os \in Streams :
    /\ cop = NoOp
    /\ ~Contains(os_v[warn], os)
    /\ \A l \in levels_t \ {warn} : Contains(os_v[l], os)
    /\ \E h \in Handles : Contains(os_v[warn], h)

\* C16: whatever add_output and remove_output calls were made, with
\* streams or paths and with lists that repeat a severity, a sink is at
\* most once in each severity's list.
C16_AtMostOnce ==
  \A l \in levels_t, os \in Sinks : Count(os_v[l], os) <= 1

\* Two sinks subscribed with a list that names error twice.
C16_Witness ==
  \E os \in Streams, h \in Handles :
    /\ cop = NoOp
    /\ \A l \in {warn, error} : Count(os_v[l], os) = 1 /\ Count(os_v[l], h) = 1
    /\ \A l \in levels_t \ {warn, error} : os_v[l] = <<>>

\* C17: the sink lists change only when add_output or remove_output
\* returns, and each dispatch writes the record to the streams that are in
\* the list of its severity at that moment and to no other: a stream added
\* gets every record of its severities dispatched from then on, also those
\* enqueued before, and a stream removed gets none.
C17_NextRecord ==
  /\ [][os_v' # os_v
          => Returns("add_output") \/ Returns("remove_output")]_vars
  /\ [][Returns("add_output")
          => \A l \in levels_t :
               (cop.lvls = <<>> \/ l \in Ids(cop.lvls))
                 => Contains(os_v'[l], cop.arg)]_vars
  /\ [][Returns("remove_output")
          => \A l \in levels_t :
               (cop.lvls = <<>> \/ l \in Ids(cop.lvls))
                 => ~Contains(os_v'[l], cop.arg)]_vars
  /\ [][Dispatched
          => LET msg == messages_v[tail_v]
             IN \A os \in Streams :
                  out'[os] = IF Contains(os_v[msg.lvl], os)
                             THEN Append(out[os], msg.id) ELSE out[os]]_vars
  /\ [][out' # out => Dispatched]_vars

\* The producer found the queue full of records of one severity and is
\* still waiting; the stream did not get the first of them and got the
\* last: it was added while that record was queued.
C17_Witness ==
  \E os \in Streams :
    /\ InLoop("p1") /\ pf["p1"].waited
    /\ pmsg["p1"].id = max_count_c + 1
    /\ \A i \in 0..(max_count_c - 1) :
         messages_v[i].lvl = messages_v[0].lvl /\ messages_v[i].id # 0
    /\ disp = [i \in 1..max_count_c |-> i]
    /\ out[os] = <<max_count_c>>

\* ------------------------------------------------------------------------
\* The worked example.

\* The five writes have returned and the queue is empty again
ExampleDone ==
  /\ nmsgs = Len(ExampleLevels)
  /\ ppc["p1"] = "idle"
  /\ count_v = 0
\* The ids of the records at or above warn, in the order written
ExamplePassed ==
  SelectSeq([i \in 1..Len(ExampleLevels) |-> i],
            LAMBDA i : ExampleLevels[i] >= warn)

\* C18 as stated: of the five records exactly three are queued and
\* delivered, in the order written, and the info record is dropped when it
\* is written.
C18_ThreeDelivered ==
  /\ 1 \notin Ids(enq)
  /\ ExampleDone => /\ Len(enq) = 3
                    /\ disp = enq
                    /\ \A i, j \in 1..Len(enq) : i < j => enq[i] < enq[j]

\* C18: of the five records exactly the four at or above warn (warn,
\* error, warn, fatal) are queued and delivered to the stream, in the order
\* written, no write finds the queue full, and the info record is dropped
\* when it is written.
C18_FourDelivered ==
  /\ 1 \notin Ids(enq)
  /\ pmsg["p1"].id = 1 /\ ppc["p1"] = "idle" => pres["p1"] = "dropped"
  /\ ~pf["p1"].waited
  /\ IsPrefix(disp, enq) /\ IsPrefix(enq, ExamplePassed)
  /\ \A os \in Streams : out[os] = disp
  /\ ExampleDone => /\ enq = ExamplePassed
                    /\ disp = ExamplePassed
                    /\ [i \in 1..Len(disp) |-> ExampleLevels[disp[i]]]
                         = <<warn, error, warn, fatal>>

\* The five writes are done, every slot has held a record and the queue is
\* drained.
C18_Witness ==
  /\ ExampleDone
  /\ Len(disp) = 4
  /\ \A i \in 0..(max_count_c - 1) : messages_v[i].id # 0

\* ------------------------------------------------------------------------
\* Syslog.

\* openlog was called and closelog has not been called since
SyslogOpen == sys_ident # "none"

\* C19: when ~log_t has joined the writer thread, syslog is not open,
\* whatever syslog_state_v was when the teardown began.
C19_ClosedOnTeardown == dpc = "joined" => ~SyslogOpen

\* C20: openlog and closelog are called in steps of the writer thread
\* only; enable_syslog, disable_syslog and app_name set syslog_state_v and
\* make no syslog call.
C20_WriterOnly ==
  /\ [][sys_calls' # sys_calls \/ sys_ident' # sys_ident
          => /\ wpc \in {"wle", "drain", "close"}
             /\ UNCHANGED <<cvars, pvars, dpc, app_name_v>>]_vars
  /\ [][Returns("enable_syslog")
          => syslog_state_v' = "enable"
             /\ UNCHANGED <<sys_calls, sys_ident, app_name_v>>]_vars
  /\ [][Returns("disable_syslog")
          => syslog_state_v' = "disable"
             /\ UNCHANGED <<sys_calls, sys_ident, app_name_v>>]_vars
  /\ [][app_name_v' # app_name_v
          => syslog_state_v' = "app_name_changed"
             /\ UNCHANGED <<sys_calls, sys_ident>>]_vars

\* Syslog was opened under a new name and closed again on a later record,
\* after enable_syslog, app_name and disable_syslog had returned.
C20_Witness ==
  /\ cop = NoOp
  /\ syslog_state_v = "disable"
  /\ ~SyslogOpen
  /\ \E i, j \in 1..Len(sys_calls) :
       /\ i < j
       /\ sys_calls[i].call = "openlog" /\ sys_calls[i].ident = "app"
       /\ sys_calls[j].call = "closelog"

\* ------------------------------------------------------------------------
\* Threads.

\* A step of the writer thread: no caller's call or result changes
WriterStep ==
  /\ wpc \in {"loop", "wle", "drain", "wait", "close", "catch", "catch2"}
  /\ UNCHANGED <<cvars, pvars, dpc>>

\* C21: an ofstream of the path table is created or destroyed in steps of
\* the writer thread only, never in the thread that calls add_output(path)
\* or remove_output(path).
C21_FilesWriterOnly == [][ofs_v' # ofs_v => WriterStep]_vars

\* The three syslog calls of a record dispatched after a rename
Reopened(msg) ==
  <<SysCall("closelog", "none", 0, 0),
    SysCall("openlog", app_name_v, 0, 0),
    SysCall("syslog", app_name_v, priority(msg.lvl), msg.id)>>

\* C22: app_name(name) called while syslog is open makes no syslog call
\* itself; the next dispatched record closes syslog, reopens it with the new
\* name, leaves the state open, and is itself passed to syslog under the new
\* name.
C22_RenameReopens ==
  /\ [][SyslogOpen /\ syslog_state_v' = "app_name_changed"
          /\ (app_name_v' # app_name_v \/ syslog_state_v # "app_name_changed")
          => UNCHANGED <<sys_calls, sys_ident, disp>>]_vars
  /\ [][Dispatched /\ SyslogOpen /\ syslog_state_v = "app_name_changed"
          => /\ sys_calls' = sys_calls \o Reopened(messages_v[tail_v])
             /\ syslog_state_v' = "open"
             /\ sys_ident' = app_name_v]_vars

\* Syslog was open as "WMP LOG", the name was changed to "app", and the
\* next record was passed to syslog under "app" after a close and an open.
C22_Witness ==
  /\ syslog_state_v = "open"
  /\ sys_ident = "app"
  /\ \E i \in 1..Len(sys_calls) :
       /\ i + 3 <= Len(sys_calls)
       /\ sys_calls[i].call = "syslog" /\ sys_calls[i].ident = "WMP LOG"
       /\ sys_calls[i + 1].call = "closelog"
       /\ sys_calls[i + 2] = SysCall("openlog", "app", 0, 0)
       /\ sys_calls[i + 3].call = "syslog" /\ sys_calls[i + 3].ident = "app"
       /\ sys_calls[i + 3].id = sys_calls[i].id + 1

\* The table of enable_syslog's documentation, one line for each severity
SyslogTable(lvl) ==
  CASE lvl = excep  -> LOG_EMERG
    [] lvl = fatal  -> LOG_CRIT
    [] lvl = error  -> LOG_ERR
    [] lvl = warn   -> LOG_WARNING
    [] lvl = notify -> LOG_NOTICE
    [] lvl = info   -> LOG_INFO
    [] lvl = debug  -> LOG_DEBUG
    [] lvl = trace  -> LOG_DEBUG

\* C23: a record dispatched while syslog is open, or about to be opened, is
\* passed to syslog with the priority of the table: excep EMERG, fatal
\* CRIT, error ERR, warn WARNING, notify NOTICE, info INFO, debug and trace
\* DEBUG. The highest severity has the most urgent priority (the smallest
\* number) and the two lowest have the debug priority.
C23_PriorityMapping ==
  /\ \A lvl \in levels_t : priority(excep) <= priority(lvl)
  /\ priority(trace) = LOG_DEBUG /\ priority(debug) = LOG_DEBUG
  /\ [][Dispatched /\ syslog_state_v \in {"enable", "open"}
          => LET msg == messages_v[tail_v]
                 call == sys_calls'[Len(sys_calls')]
             IN /\ Len(sys_calls') > Len(sys_calls)
                /\ call.call = "syslog"
                /\ call.id = msg.id
                /\ call.prio = SyslogTable(msg.lvl)]_vars

\* Records of severities excep, trace and debug have been passed to syslog,
\* the first as LOG_EMERG and the two others as LOG_DEBUG.
C23_Witness ==
  /\ \E c \in Ids(sys_calls) : c.call = "syslog" /\ c.prio = LOG_EMERG
  /\ \E i, j \in DOMAIN messages_v :
       /\ messages_v[i].lvl = trace /\ messages_v[j].lvl = debug
       /\ \A k \in {i, j} :
            \E c \in Ids(sys_calls) :
              /\ c.call = "syslog" /\ c.id = messages_v[k].id
              /\ c.prio = LOG_DEBUG

\* C24: once executing_v is false the writer thread ends, and the join of
\* ~log_t returns, whatever the queue held, whether a producer was waiting
\* for a slot, the writer thread was in wait_for, or the engine had faulted;
\* the writer thread is scheduled fairly and nothing but the timeout of
\* wait_for wakes it.
C24_ShutdownCompletes ==
  /\ ~executing_v ~> wpc = "done"
  /\ dpc = "join" ~> dpc = "joined"

\* The join has returned after a teardown that began while a producer was
\* waiting for a slot of the full queue.
C24_Witness == dpc = "joined" /\ hist.shutwait # {} /\ ~Faulted

\* C25: in a build without the syslog facility enable_syslog and
\* disable_syslog return normally on an engine that has not faulted and
\* change nothing but syslog_state_v, no openlog, closelog or syslog call is
\* ever made, and each dispatched record goes to the streams subscribed to
\* its severity whatever syslog_state_v is.
C25_NoFacility ==
  /\ [](~has_syslog => sys_calls = <<>> /\ ~SyslogOpen)
  /\ [][~has_syslog /\ (Returns("enable_syslog") \/ Returns("disable_syslog"))
          => /\ cres' = "ok"
             /\ UNCHANGED <<level_v, executing_v, write_exception_v, qvars,
                            regvars, app_name_v, wpc, pvars, dpc, envvars,
                            enq, disp>>]_vars
  /\ [][~has_syslog /\ Dispatched
          => LET msg == messages_v[tail_v]
             IN /\ syslog_state_v' = syslog_state_v
                /\ \A os \in Streams :
                     out'[os] = IF Contains(os_v[msg.lvl], os)
                                THEN Append(out[os], msg.id)
                                ELSE out[os]]_vars

\* Without the facility: enable_syslog has returned, and a record has been
\* written to the stream since, with no syslog call made.
C25_Witness ==
  /\ ~has_syslog
  /\ syslog_state_v = "enable"
  /\ cop = NoOp /\ cres = "ok"
  /\ out["s1"] # <<>>
  /\ sys_calls = <<>>

\* A sequence of characters without the blanks at its end
RECURSIVE Trim(_)
Trim(s) ==
  IF s # <<>> /\ s[Len(s)] = " " THEN Trim(SubSeq(s, 1, Len(s) - 1)) ELSE s

\* The table of the documentation of operator << in log.hpp
NameTable(lvl) ==
  CASE lvl = excep  -> <<"E", "X", "C", "E", "P">>
    [] lvl = fatal  -> <<"F", "A", "T", "A", "L">>
    [] lvl = error  -> <<"E", "R", "R", "O", "R">>
    [] lvl = warn   -> <<"W", "A", "R", "N">>
    [] lvl = notify -> <<"N", "O", "T", "I", "F">>
    [] lvl = info   -> <<"I", "N", "F", "O">>
    [] lvl = debug  -> <<"D", "E", "B", "U", "G">>
    [] lvl = trace  -> <<"D", "E", "B", "U", "G">>

\* C26: the severity written into the header of a record is, up to the
\* blanks that pad it, the name of the header's table: EXCEP, FATAL, ERROR,
\* WARN, NOTIF, INFO, DEBUG for debug and DEBUG for trace.
C26_LevelNames ==
  /\ \A p \in Procs :
       pmsg[p].id # 0 => Trim(pmsg[p].text) = NameTable(pmsg[p].lvl)
  /\ \A i \in DOMAIN messages_v :
       messages_v[i].id # 0
         => Trim(messages_v[i].text) = NameTable(messages_v[i].lvl)

\* C27: in the loop of line 137 the writer thread goes to wait_for only
\* from a call of write_log_entry that found the queue empty; a call that
\* dispatched a record is followed by the next call without a wait, also
\* when records remain in the queue.
C27_RunningLoop ==
  /\ [][wpc = "wle" /\ wpc' = "wait" => count_v = 0]_vars
  /\ [][wpc = "wle" /\ Dispatched => wpc' = "loop"]_vars

\* C28: the record dispatched next after enable_syslog opens syslog with
\* the app_name_v of that moment, sets syslog_state_v to open and is passed
\* to syslog; each later record is passed to syslog with no further openlog,
\* and syslog_state_v leaves open in a step of a configuration call only.
C28_EnableOpens ==
  /\ [][Dispatched /\ syslog_state_v = "enable"
          => LET msg == messages_v[tail_v]
             IN /\ sys_calls' = sys_calls \o
                     <<SysCall("openlog", app_name_v, 0, 0),
                       SysCall("syslog", app_name_v, priority(msg.lvl),
                               msg.id)>>
                /\ syslog_state_v' = "open"
                /\ sys_ident' = app_name_v]_vars
  /\ [][Dispatched /\ syslog_state_v = "open"
          => LET msg == messages_v[tail_v]
             IN /\ sys_calls' = Append(sys_calls,
                     SysCall("syslog", sys_ident, priority(msg.lvl), msg.id))
                /\ syslog_state_v' = "open"
                /\ sys_ident' = sys_ident]_vars
  /\ [][syslog_state_v = "open" /\ syslog_state_v' # "open"
          => UNCHANGED <<wpc, disp, sys_calls, sys_ident>>]_vars

\* After enable_syslog the first record opened syslog and was passed to it,
\* and the second record was passed to it with no other call.
C28_Witness ==
  /\ syslog_state_v = "open"
  /\ Len(sys_calls) = 3
  /\ sys_calls[1] = SysCall("openlog", "WMP LOG", 0, 0)
  /\ sys_calls[2].call = "syslog" /\ sys_calls[2].id = 1
  /\ sys_calls[3].call = "syslog" /\ sys_calls[3].id = 2
  /\ sys_calls[3].ident = "WMP LOG"

\* C29: the record dispatched next after disable_syslog closes syslog once
\* and moves syslog_state_v from disable to closed; neither that record nor
\* a later one is passed to syslog, and a record dispatched in state closed
\* makes no syslog call at all.
C29_DisableCloses ==
  /\ [][Dispatched /\ syslog_state_v = "disable"
          => /\ sys_calls' = Append(sys_calls,
                                    SysCall("closelog", "none", 0, 0))
             /\ syslog_state_v' = "closed"]_vars
  /\ [][Dispatched /\ syslog_state_v = "closed"
          => sys_calls' = sys_calls /\ syslog_state_v' = "closed"]_vars

\* C30: the streams are written in one call of write_log_entry, under
\* mutex_v: a step that writes to a stream writes the record at the tail
\* to a prefix of its severity's list, in the order of the list; the record
\* is dequeued only when the whole list has been written, and then every
\* subscribed stream has received it; so whatever a stream has received
\* and is not yet dispatched is the record at the tail, whose dispatch
\* failed.
C30_AtomicFanout ==
  /\ [][out' # out
          => LET msg == messages_v[tail_v]
                 lst == os_v[msg.lvl]
             IN /\ wpc \in {"wle", "drain"} /\ count_v > 0
                /\ UNCHANGED <<os_v, ofs_v, pvars, cvars>>
                /\ \E n \in 1..Len(lst) :
                     /\ \A s \in Sinks :
                          out'[s] = Written(out[s], msg.id,
                             Cardinality({i \in 1..n : lst[i] = s}))
                     /\ Dispatched <=> n = Len(lst)]_vars
  /\ [][Dispatched
          => LET msg == messages_v[tail_v]
             IN /\ tail_v' = advance(tail_v)
                /\ \A s \in Ids(os_v[msg.lvl]) :
                     out'[s] = Append(out[s], msg.id)]_vars
  /\ [](\A s \in Sinks : \A id \in Ids(out[s]) :
          \/ id \in Ids(disp)
          \/ /\ count_v > 0 /\ id = messages_v[tail_v].id
             /\ wpc \in {"catch", "catch2", "done"})

\* Two records have been written to the stream and to the file, each to
\* both before the next was dequeued.
C30_Witness ==
  /\ disp = <<1, 2>>
  /\ out["s1"] = <<1, 2>>
  /\ \E h \in Handles : ofs_v["f1"] = h /\ out[h] = <<1, 2>>

\* C31: while write_log_entry is inside its scoped_lock, from the test of
\* count_v to the dequeue, no step changes the lists of streams, the path
\* table, app_name_v or syslog_state_v, no configuration call past its
\* fault check returns, and no record is enqueued; the record is dequeued when exactly the streams of the list found at the
\* lock have been written.
C31_ConfigAtomic ==
  /\ [][mutex_v = "writer"
          => /\ UNCHANGED <<os_v, ofs_v, app_name_v, syslog_state_v, head_v,
                            messages_v, enq>>
             /\ cop # NoOp => cop' = cop
             /\ (count_v' # count_v \/ tail_v' # tail_v) => Dispatched]_vars
  /\ [][Dispatched
          => /\ mutex_v = "writer" /\ mutex_v' = "free"
             /\ wi = Len(os_v[messages_v[tail_v].lvl])]_vars

\* The writer thread is between the writes of two streams of a record
\* while add_output, past its fault check, waits for the lock and a
\* producer waits to enqueue.
C31_Witness ==
  /\ mutex_v = "writer"
  /\ wi = 1
  /\ Len(os_v[messages_v[tail_v].lvl]) = 2
  /\ cop.op # "none"
  /\ ppc["p1"] = "try"

\* C32: with no fault and no teardown every record that has been enqueued
\* is dispatched in the end, the writer thread being scheduled fairly: a
\* record enqueued while the writer thread is on its way into wait_for is
\* found when the timeout ends the wait.
C32_NoStuckConsumer ==
  \A id \in 1..MaxMsgs : (id \in Ids(enq)) ~> (id \in Ids(disp))

\* Every record has been dispatched and the writer thread waits again; one
\* of them was enqueued by a producer that had found the queue full.
C32_Witness ==
  /\ Len(enq) = MaxMsgs
  /\ disp = enq
  /\ wpc = "wait"
  /\ \E p \in Procs : pf[p].waited /\ pres[p] = "ok"

\* The fault is stored at most once and never cleared, and no record is
\* written or dispatched once it is stored.
FaultSticks ==
  /\ [](hist.faults <= 1)
  /\ [][write_exception_v => write_exception_v']_vars
  /\ [][write_exception_v
          => /\ UNCHANGED <<disp, out, tail_v, sys_calls>>
             /\ count_v' >= count_v]_vars

\* C33: write_exception_v is stored at most once and never cleared; in
\* every state where it is stored executing_v is false; and once it is
\* stored the writer thread dispatches nothing, so the records in the queue
\* stay there.
C33_FailStop ==
  /\ FaultSticks
  /\ [](write_exception_v => ~executing_v)

\* C33, with executing_v false from the end of the catch block on: line 169
\* stores the fault and line 172 clears executing_v after it.
C33_FailStopAfterCatch ==
  /\ FaultSticks
  /\ [](write_exception_v /\ wpc = "done" => ~executing_v)
  /\ [][write_exception_v /\ ~executing_v => ~executing_v']_vars

\* The writer thread has ended in the catch block with the failing record
\* and one enqueued after it in the queue, neither of them dispatched.
C33_Witness ==
  /\ write_exception_v /\ wpc = "done"
  /\ count_v = 2
  /\ Ids(Queued) \cap Ids(disp) = {}
  /\ dpc = "live"

\* C34: with no teardown begun, a write call that is inside the loop of
\* enqueue when the fault has been stored does not return normally with its
\* record undispatched: it returns the fault to its caller, or its record
\* is dispatched.
C34_NoSilentDrop ==
  [][\A p \in Procs :
       (InLoop(p) /\ ppc'[p] = "idle" /\ write_exception_v /\ dpc = "live")
         => pres'[p] = "fault" \/ pmsg[p].id \in Ids(disp')]_vars

\* The syslog calls made in this step
NewCalls == {sys_calls'[i] : i \in (Len(sys_calls) + 1)..Len(sys_calls')}

\* C35: syslog is opened, and a record is passed to it, only in a step
\* taken while enable_syslog is the last of enable_syslog and
\* disable_syslog to have returned; app_name called while syslog is closed,
\* was never enabled, or is disabled leads to no openlog.
C35_OnlyWhenEnabled ==
  [][(\E c \in NewCalls : c.call \in {"openlog", "syslog"}) => hist.wanted]_vars

\* C36: every ofstream found in the list of some severity is in the path
\* table, open, and the writer thread has written through no ofstream that
\* was destroyed.
C36_NoDanglingSink ==
  /\ \A l \in levels_t : \A h \in Handles :
       Contains(os_v[l], h) => Owned(h)
  /\ ~ub

\* C37: in every state count_v is between 0 and max_count_c, head_v and
\* tail_v are below max_count_c, head_v is tail_v plus count_v modulo
\* max_count_c, and the slots from tail_v up to head_v hold the records
\* enqueued and not dispatched, in the order of their enqueue.
C37_RingBuffer ==
  /\ count_v \in 0..max_count_c
  /\ head_v \in 0..(max_count_c - 1)
  /\ tail_v \in 0..(max_count_c - 1)
  /\ head_v = (tail_v + count_v) % max_count_c
  /\ IsPrefix(disp, enq)
  /\ Queued = SubSeq(enq, Len(disp) + 1, Len(enq))

\* The queue is full and wraps: its oldest record is in the last slot and
\* its newest in a slot before it.
C37_Witness ==
  /\ count_v = max_count_c
  /\ tail_v = max_count_c - 1
  /\ Len(disp) > 0
  /\ messages_v[tail_v].id < messages_v[0].id

\* A call of write_log_entry ends in the catch block in this step
Failed == wpc \in {"wle", "drain"} /\ wpc' = "catch"

\* C38: tail_v and count_v change only in the step that has written the
\* record to every stream of its list; when a stream throws, head_v, tail_v,
\* count_v and the record at the tail are as before, the streams listed
\* before the one that threw have received the record, and the one that
\* threw and those listed after it have not.
C38_FailedKeepsRecord ==
  /\ [][tail_v' # tail_v \/ count_v' < count_v
          => /\ Dispatched
             /\ \A s \in Ids(os_v[messages_v[tail_v].lvl]) :
                  out'[s] = Append(out[s], messages_v[tail_v].id)]_vars
  /\ [][Failed
          => LET msg == messages_v[tail_v]
                 lst == os_v[msg.lvl]
             IN /\ UNCHANGED <<qvars, disp, enq>>
                /\ count_v > 0
                /\ \E k \in 1..Len(lst) :
                     /\ \A i \in 1..(k - 1) :
                          out'[lst[i]] = Append(out[lst[i]], msg.id)
                     /\ \A i \in k..Len(lst) : out'[lst[i]] = out[lst[i]]]_vars

\* The file, listed second, threw: the stream has the record, the file has
\* not, and the record is still at the tail of the queue.
C38_Witness ==
  /\ wpc = "done" /\ write_exception_v
  /\ count_v > 0
  /\ \E h \in Handles :
       /\ os_v[warn] = <<"s1", h>>
       /\ out["s1"] = Append(out[h], messages_v[tail_v].id)
  /\ messages_v[tail_v].id \notin Ids(disp)

\* The state data_t's constructor leaves
Constructed ==
  /\ level_v = notify
  /\ count_v = 0 /\ head_v = 0 /\ tail_v = 0
  /\ write_exception_v = FALSE /\ executing_v = TRUE
  /\ \A l \in levels_t : os_v[l] = <<>>
  /\ \A path \in Paths : ofs_v[path] = NoHandle
  /\ syslog_state_v = "closed"

\* C39: a freshly constructed engine has min_level notify, an empty queue,
\* no fault, no stream listed for any severity and syslog closed; as long as
\* no configuration call is made, a write of a trace, debug or info record
\* returns at the filter without storing it, and a record of notify or
\* above is stored and dispatched but reaches no stream and no syslog.
C39_InitialState ==
  /\ Constructed
  /\ [][\A p \in Procs :
          ppc[p] = "filter" /\ ppc'[p] # "filter"
            => IF pmsg[p].lvl \in {trace, debug, info}
               THEN ppc'[p] = "idle" /\ pres'[p] # "fault"
               ELSE ppc'[p] = "while"]_vars
  /\ [](\A p \in Procs :
          pmsg[p].lvl \in {trace, debug, info} => pmsg[p].id \notin Ids(enq))
  /\ [][Dispatched => messages_v[tail_v].lvl >= notify]_vars
  /\ [](\A s \in Sinks : out[s] = <<>>)
  /\ [](sys_calls = <<>>)

\* An info record was dropped at the filter after a notify record had been
\* stored and dispatched to no stream.
C39_Witness ==
  /\ ppc["p1"] = "idle" /\ pmsg["p1"].lvl = info /\ pf["p1"].below
  /\ \E i \in DOMAIN messages_v :
       messages_v[i].lvl = notify /\ messages_v[i].id \in Ids(disp)
  /\ \A s \in Sinks : out[s] = <<>>

====
